---- MODULE Spec2Model ----
(***************************************************************************)
(* Model of homework.py: a poller that asks the homework-review API for    *)
(* the status of the latest submission, derives a notification text and    *)
(* sends it through a Telegram bot, suppressing repeated texts.            *)
(*                                                                         *)
(* Python values are tagged records: [t |-> "None"], [t |-> "int", v],     *)
(* [t |-> "str", v], [t |-> "list", v |-> sequence], [t |-> "dict", v |->  *)
(* function from keys to values].  The Russian texts of the program are    *)
(* written in Latin transliteration (the tools read ASCII strings only);   *)
(* distinct texts of the program stay distinct.                            *)
(***************************************************************************)
EXTENDS Integers, Sequences, FiniteSets, TLC

VARIABLES
    tokens,             \* PRACTICUM_TOKEN, TELEGRAM_TOKEN, TELEGRAM_CHAT_ID
    pc,                 \* position of main()
    now,                \* wall clock, int(time.time())
    current_timestamp,  \* local of main
    sent_message,       \* local of main
    response,           \* local of main
    homeworks,          \* local of main
    message,            \* local of main
    error,              \* exception caught by "except Exception as error"
    raised,             \* exception raised inside the except block, in flight
    from_date,          \* params['from_date'] of the last request
    fetches,            \* history: number of requests.get calls
    sleeps,             \* history: number of time.sleep calls
    derived,            \* history: text derived in this iteration
    calls,              \* history: bot.send_message calls of this iteration
    prev,               \* history: the previous iteration and how it ended
    delivered,          \* history: last status text the bot delivered
    fn,                 \* harness for the pure functions: inputs and outputs
    last_reply          \* history: what requests.get came back with

vars == <<tokens, pc, now, current_timestamp, sent_message, response,
          homeworks, message, error, raised, from_date, fetches, sleeps,
          derived, calls, prev, delivered, fn, last_reply>>

mainVars == <<tokens, pc, now, current_timestamp, sent_message, response,
              homeworks, message, error, raised, from_date, fetches, sleeps,
              derived, calls, prev, delivered, last_reply>>

-----------------------------------------------------------------------------
(* Bounds of the model *)

\* number of loop iterations explored
MaxIter == 3
\* longest homeworks list in a response
MaxHomeworks == 2
\* wall clock when main() starts
StartTime == 1000

-----------------------------------------------------------------------------
(* Python values *)

None == [t |-> "None"]
PyInt(n) == [t |-> "int", v |-> n]
PyStr(s) == [t |-> "str", v |-> s]
PyList(q) == [t |-> "list", v |-> q]
PyDict(f) == [t |-> "dict", v |-> f]

\* bool(x)
Truthy(x) ==
    CASE x.t = "None" -> FALSE
      [] x.t = "int"  -> x.v # 0
      [] x.t = "str"  -> x.v # ""
      [] x.t = "list" -> Len(x.v) > 0
      [] x.t = "dict" -> DOMAIN x.v # {}

\* key in d
HasKey(d, key) == key \in DOMAIN d.v

\* d.get(key)
Get(d, key) == IF HasKey(d, key) THEN d.v[key] ELSE None

\* type(x).__name__
TypeName(x) ==
    CASE x.t = "None" -> "NoneType"
      [] x.t = "int"  -> "int"
      [] x.t = "str"  -> "str"
      [] x.t = "list" -> "list"
      [] x.t = "dict" -> "dict"

\* f'{x}' for the values that occur as homework_name
Format(x) ==
    CASE x.t = "None" -> "None"
      [] x.t = "int"  -> ToString(x.v)
      [] x.t = "str"  -> x.v
      [] OTHER        -> "<" \o x.t \o ">"

\* an exception object and the outcome of a call
Exc(type, arg) == [type |-> type, arg |-> arg]
Return(val) == [ok |-> TRUE, val |-> val]
Raise(type, arg) == [ok |-> FALSE, exc |-> Exc(type, arg)]

\* str(error): KeyError shows the repr of its argument, the others the text
StrOf(e) == IF e.type = "KeyError" THEN "'" \o e.arg \o "'" ELSE e.arg

-----------------------------------------------------------------------------
(* Program constants *)

RETRY_TIME == 600

HTTP_OK == 200

HOMEWORK_STATUSES ==
    [approved  |-> "Rabota proverena: revyueru vsyo ponravilos. Ura!",
     reviewing |-> "Rabota vzyata na proverku revyuerom.",
     rejected  |-> "Rabota proverena: u revyuera est zamechaniya."]

NOT_DICT_TEXT == "Otvet API nekorrekten: otvet API ne yavlyaetsya slovarem"
NO_KEYS_TEXT ==
    "Otvet API nekorrekten: <<current_date>> i <<homeworks>>"
    \o "ne naydeny v nabore sushchestvuyushchih klyuchey"
NOT_LIST_TEXT == "Otvet API nekorrekten: po klyuchu <<homeworks>>"
NO_NAME_TEXT == "Takoy domashney raboty net v sisteme"
NO_STATUS_TEXT == "Takogo statusa ne sushchestvuet"
NO_HOMEWORKS_TEXT == "V ukazannye daty domashnih zadaniy ne naydeno"
FAILURE_PREFIX == "Sboy v rabote programmy: "
TOKEN_ERROR_TEXT == "Otsutstvuet obyazatelnaya peremennaya okruzheniya"

-----------------------------------------------------------------------------
(* The functions of homework.py *)

\* A wrong version of check_tokens: one credential is enough.
check_tokens_any(tk) ==
    \/ Truthy(tk.PRACTICUM_TOKEN)
    \/ Truthy(tk.TELEGRAM_TOKEN)
    \/ Truthy(tk.TELEGRAM_CHAT_ID)

\* check_tokens(): all((PRACTICUM_TOKEN, TELEGRAM_TOKEN, TELEGRAM_CHAT_ID))
check_tokens(tk) ==
    /\ Truthy(tk.PRACTICUM_TOKEN)
    /\ Truthy(tk.TELEGRAM_TOKEN)
    /\ Truthy(tk.TELEGRAM_CHAT_ID)

\* get_api_answer(current_timestamp) at wall clock `clock`, when the
\* endpoint answers with `reply`: the from_date sent and the outcome.
get_api_answer(ts, clock, reply) ==
    LET timestamp == IF Truthy(ts) THEN ts ELSE PyInt(clock)
        outcome ==
            IF ~reply.net
            THEN Raise("RequestException", "Connection failed")
            ELSE IF reply.status_code = HTTP_OK
                 THEN IF reply.json
                      THEN Return(reply.body)
                      ELSE Raise("JSONDecodeError", "Expecting value")
                 ELSE Raise("RequestException",
                            "Zapros ne udalsya: kod oshibki "
                            \o ToString(reply.status_code))
    IN  [from_date |-> timestamp, result |-> outcome]

\* A wrong version of check_response: the list check before the key check.
check_response_list_first(resp) ==
    IF resp.t # "dict"
    THEN Raise("TypeError", NOT_DICT_TEXT)
    ELSE IF Get(resp, "homeworks").t # "list"
         THEN Raise("TypeError", NOT_LIST_TEXT)
         ELSE IF ~HasKey(resp, "current_date") \/ ~HasKey(resp, "homeworks")
              THEN Raise("KeyError", NO_KEYS_TEXT)
              ELSE Return(Get(resp, "homeworks"))

\* check_response(response)
check_response(resp) ==
    IF resp.t # "dict"
    THEN Raise("TypeError", NOT_DICT_TEXT)
    ELSE IF ~HasKey(resp, "current_date") \/ ~HasKey(resp, "homeworks")
         THEN Raise("KeyError", NO_KEYS_TEXT)
         ELSE IF Get(resp, "homeworks").t # "list"
              THEN Raise("TypeError", NOT_LIST_TEXT)
              ELSE Return(Get(resp, "homeworks"))

\* the text parse_status returns
StatusText(homework_name, verdict) ==
    "Izmenilsya status proverki raboty \"" \o Format(homework_name)
    \o "\". " \o verdict

\* `status in HOMEWORK_STATUSES`
KnownStatus(status) == status.t = "str" /\ status.v \in DOMAIN HOMEWORK_STATUSES

\* A wrong version of parse_status: the status is checked first.
parse_status_status_first(homework) ==
    IF ~KnownStatus(Get(homework, "status"))
    THEN Raise("KeyError", NO_STATUS_TEXT)
    ELSE IF ~HasKey(homework, "homework_name")
         THEN Raise("KeyError", NO_NAME_TEXT)
         ELSE Return(StatusText(Get(homework, "homework_name"),
                                HOMEWORK_STATUSES[Get(homework, "status").v]))

\* parse_status(homework)
parse_status(homework) ==
    IF ~HasKey(homework, "homework_name")
    THEN Raise("KeyError", NO_NAME_TEXT)
    ELSE IF ~KnownStatus(Get(homework, "status"))
         THEN Raise("KeyError", NO_STATUS_TEXT)
         ELSE Return(StatusText(Get(homework, "homework_name"),
                                HOMEWORK_STATUSES[Get(homework, "status").v]))

\* A wrong version of derive_message: the last element is parsed.
derive_message_last(hws) ==
    IF Truthy(hws) THEN parse_status(hws.v[Len(hws.v)])
    ELSE Return(NO_HOMEWORKS_TEXT)

\* Lines 144-145 and 154-155 of main: the text derived from the validated
\* list, parse_status of its first element or the fixed text.
derive_message(hws) ==
    IF Truthy(hws) THEN parse_status(hws.v[1]) ELSE Return(NO_HOMEWORKS_TEXT)

\* Line 163 of main: the text sent when an iteration fails.
failure_message(e) == FAILURE_PREFIX \o StrOf(e)

-----------------------------------------------------------------------------
(* What the environment can supply *)

\* a credential: unset, empty or set
TokenValues == {None, PyStr(""), PyStr("token")}

Absent == "<absent>"

\* a homework record; Absent leaves the key out, ident > 0 adds an "id" key
Record(name, status, ident) ==
    PyDict([k \in (IF name = Absent THEN {} ELSE {"homework_name"})
                  \cup (IF status = Absent THEN {} ELSE {"status"})
                  \cup (IF ident = 0 THEN {} ELSE {"id"}) |->
                CASE k = "homework_name" -> PyStr(name)
                  [] k = "status"        -> PyStr(status)
                  [] k = "id"            -> PyInt(ident)])

\* the records a polled response starts with
FirstRecords ==
    { Record(n, s, 0) : n \in {Absent, "hw1", "hw2"},
                        s \in {Absent, "approved", "rejected", "bogus"} }
    \cup { Record("hw1", "approved", 7) }

\* the records that follow the first one
TailRecords == { Record("hw2", "reviewing", 0) }

\* the non-empty lists of at most n records
RECURSIVE ListsFrom(_, _, _)
ListsFrom(firsts, tails, n) ==
    IF n = 0 THEN {}
    ELSE { <<r>> : r \in firsts }
         \cup { Append(q, r) : q \in ListsFrom(firsts, tails, n - 1), r \in tails }

HomeworkLists == {<<>>} \cup ListsFrom(FirstRecords, TailRecords, MaxHomeworks)

\* values of current_date: zero, before and after the start of the program
CurrentDates == {PyInt(0), PyInt(StartTime - 500), PyInt(StartTime + 500)}

\* a JSON object; a key is left out when its value is Missing
Missing == [t |-> "missing"]
Body(current_date, hws) ==
    PyDict([k \in (IF current_date = Missing THEN {} ELSE {"current_date"})
                  \cup (IF hws = Missing THEN {} ELSE {"homeworks"}) |->
                CASE k = "current_date" -> current_date
                  [] k = "homeworks"    -> hws])

\* JSON bodies of the endpoint: objects and two bodies that are no object
Bodies ==
    { Body(d, h) : d \in CurrentDates \cup {Missing},
                   h \in { PyList(q) : q \in HomeworkLists }
                         \cup {PyDict(<<>>), Missing} }
    \cup {None, PyList(<<>>)}

\* what requests.get can come back with
Replies ==
    { [net |-> TRUE, status_code |-> HTTP_OK, json |-> TRUE, body |-> b] :
        b \in Bodies }
    \cup { [net |-> FALSE, status_code |-> 0, json |-> FALSE, body |-> None],
           [net |-> TRUE, status_code |-> 500, json |-> TRUE, body |-> None],
           [net |-> TRUE, status_code |-> HTTP_OK, json |-> FALSE, body |-> None] }

-----------------------------------------------------------------------------
(* main() *)

NoExc == Exc("none", "")
NotDerived == [ok |-> FALSE, exc |-> NoExc]
Idle == [op |-> "idle"]
NoReply == [net |-> FALSE, status_code |-> 0, json |-> FALSE, body |-> None,
            none |-> TRUE]

\* prev before the first iteration: nothing derived, nothing sent
NoPrev ==
    [homeworks |-> None, derived |-> NotDerived, calls |-> <<>>,
     error |-> NoExc, sent |-> None, sent_before |-> None, timestamp |-> None]

Init ==
    /\ tokens \in [PRACTICUM_TOKEN : TokenValues, TELEGRAM_TOKEN : TokenValues,
                   TELEGRAM_CHAT_ID : TokenValues]
    /\ pc = "start"
    /\ now = StartTime
    /\ current_timestamp = None
    /\ sent_message = None
    /\ response = None
    /\ homeworks = None
    /\ message = None
    /\ error = NoExc
    /\ raised = NoExc
    /\ from_date = None
    /\ fetches = 0
    /\ sleeps = 0
    /\ derived = NotDerived
    /\ calls = <<>>
    /\ prev = NoPrev
    /\ delivered = None
    /\ fn = Idle
    /\ last_reply = NoReply

\* Lines 130-137: the credentials are checked, then the locals are set.
Startup ==
    /\ pc = "start"
    /\ IF check_tokens(tokens)
       THEN /\ pc' = "loop"
            /\ current_timestamp' = PyInt(now)
            /\ sent_message' = None
            /\ raised' = raised
            /\ prev' = [prev EXCEPT !.timestamp = PyInt(now)]
       ELSE /\ pc' = "token_error"
            /\ raised' = Exc("TokenError", TOKEN_ERROR_TEXT)
            /\ UNCHANGED <<current_timestamp, sent_message, prev>>
    /\ UNCHANGED <<tokens, now, response, homeworks, message, error, from_date,
                   fetches, sleeps, derived, calls, delivered, fn, last_reply>>

\* A wrong version of GetApiAnswer: a failed request is repeated at once.
GetApiAnswerRetry ==
    /\ pc = "loop"
    /\ fetches < MaxIter
    /\ \E first \in Replies, second \in Replies :
         LET r1 == get_api_answer(current_timestamp, now, first)
             r2 == get_api_answer(current_timestamp, now, second)
             r  == IF r1.result.ok THEN r1 ELSE r2
         IN  /\ from_date' = r.from_date
             /\ last_reply' = IF r1.result.ok THEN first ELSE second
             /\ fetches' = IF r1.result.ok THEN fetches + 1 ELSE fetches + 2
             /\ IF r.result.ok
                THEN /\ response' = r.result.val
                     /\ pc' = "update"
                     /\ error' = error
                ELSE /\ error' = r.result.exc
                     /\ pc' = "except"
                     /\ response' = response
    /\ UNCHANGED <<tokens, now, current_timestamp, sent_message, homeworks,
                   message, raised, sleeps, derived, calls, prev, delivered, fn>>

\* Line 141: response = get_api_answer(current_timestamp)
GetApiAnswer ==
    /\ pc = "loop"
    /\ fetches < MaxIter
    /\ \E reply \in Replies :
         LET r == get_api_answer(current_timestamp, now, reply)
         IN  /\ from_date' = r.from_date
             /\ last_reply' = reply
             /\ IF r.result.ok
                THEN /\ response' = r.result.val
                     /\ pc' = "update"
                     /\ error' = error
                ELSE /\ error' = r.result.exc
                     /\ pc' = "except"
                     /\ response' = response
    /\ fetches' = fetches + 1
    /\ UNCHANGED <<tokens, now, current_timestamp, sent_message, homeworks,
                   message, raised, sleeps, derived, calls, prev, delivered, fn>>

\* Line 142: current_timestamp = response.get('current_date')
UpdateTimestamp ==
    /\ pc = "update"
    /\ IF response.t = "dict"
       THEN /\ current_timestamp' = Get(response, "current_date")
            /\ pc' = "check"
            /\ error' = error
       ELSE /\ error' = Exc("AttributeError",
                            "'" \o TypeName(response)
                            \o "' object has no attribute 'get'")
            /\ pc' = "except"
            /\ current_timestamp' = current_timestamp
    /\ UNCHANGED <<tokens, now, sent_message, response, homeworks, message,
                   raised, from_date, fetches, sleeps, derived, calls, prev,
                   delivered, fn, last_reply>>

\* Line 143: homeworks = check_response(response)
CheckResponse ==
    /\ pc = "check"
    /\ LET r == check_response(response)
       IN  IF r.ok
           THEN /\ homeworks' = r.val
                /\ pc' = "derive"
                /\ error' = error
           ELSE /\ error' = r.exc
                /\ pc' = "except"
                /\ homeworks' = homeworks
    /\ UNCHANGED <<tokens, now, current_timestamp, sent_message, response,
                   message, raised, from_date, fetches, sleeps, derived, calls,
                   prev, delivered, fn, last_reply>>

\* Lines 144-145 and 154-155: message = parse_status(homeworks[0]), or the
\* fixed text when the list is empty.
DeriveMessage ==
    /\ pc = "derive"
    /\ LET r == derive_message(homeworks)
       IN  /\ derived' = r
           /\ IF r.ok
              THEN /\ message' = PyStr(r.val)
                   /\ pc' = "notify"
                   /\ error' = error
              ELSE /\ error' = r.exc
                   /\ pc' = "except"
                   /\ message' = message
    /\ UNCHANGED <<tokens, now, current_timestamp, sent_message, response,
                   homeworks, raised, from_date, fetches, sleeps, calls, prev,
                   delivered, fn, last_reply>>

\* send_message(bot, message), lines 37-43, when the bot delivers (ok) or
\* raises telegram.TelegramError, which send_message raises again.
send_message(text, ok) ==
    IF ok THEN Return(None) ELSE Raise("TelegramError", "Delivery failed")

\* one more bot.send_message call in the history of this iteration
Called(text, ok) == Append(calls, [text |-> text, ok |-> ok])

\* A wrong version of Notify: the text is remembered before it is sent.
NotifyRemembersFirst ==
    /\ pc = "notify"
    /\ IF message # sent_message
       THEN \E ok \in BOOLEAN :
              LET r == send_message(message.v, ok)
              IN  /\ calls' = Called(message.v, ok)
                  /\ sent_message' = message
                  /\ IF r.ok
                     THEN /\ delivered' = message
                          /\ pc' = "finally"
                          /\ error' = error
                     ELSE /\ error' = r.exc
                          /\ pc' = "except"
                          /\ delivered' = delivered
       ELSE /\ pc' = "finally"
            /\ UNCHANGED <<sent_message, error, calls, delivered>>
    /\ UNCHANGED <<tokens, now, current_timestamp, response, homeworks, message,
                   raised, from_date, fetches, sleeps, derived, prev, fn, last_reply>>

\* A wrong version of Notify: the text is sent without comparing it.
NotifyAlways ==
    /\ pc = "notify"
    /\ \E ok \in BOOLEAN :
         LET r == send_message(message.v, ok)
         IN  /\ calls' = Called(message.v, ok)
             /\ IF r.ok
                THEN /\ sent_message' = message
                     /\ delivered' = message
                     /\ pc' = "finally"
                     /\ error' = error
                ELSE /\ error' = r.exc
                     /\ pc' = "except"
                     /\ UNCHANGED <<sent_message, delivered>>
    /\ UNCHANGED <<tokens, now, current_timestamp, response, homeworks, message,
                   raised, from_date, fetches, sleeps, derived, prev, fn, last_reply>>

\* A wrong version of Notify: a text is also held back when it equals the
\* text that was sent before the last one.
NotifyLastTwo ==
    /\ pc = "notify"
    /\ IF message # sent_message /\ message # prev.sent_before
       THEN \E ok \in BOOLEAN :
              LET r == send_message(message.v, ok)
              IN  /\ calls' = Called(message.v, ok)
                  /\ IF r.ok
                     THEN /\ sent_message' = message
                          /\ delivered' = message
                          /\ pc' = "finally"
                          /\ error' = error
                     ELSE /\ error' = r.exc
                          /\ pc' = "except"
                          /\ UNCHANGED <<sent_message, delivered>>
       ELSE /\ pc' = "finally"
            /\ UNCHANGED <<sent_message, error, calls, delivered>>
    /\ UNCHANGED <<tokens, now, current_timestamp, response, homeworks, message,
                   raised, from_date, fetches, sleeps, derived, prev, fn,
                   last_reply>>

\* Lines 146-153 and 156-161: a text that differs from sent_message is sent
\* and, once send_message has returned, remembered; an equal one is logged.
Notify ==
    /\ pc = "notify"
    /\ IF message # sent_message
       THEN \E ok \in BOOLEAN :
              LET r == send_message(message.v, ok)
              IN  /\ calls' = Called(message.v, ok)
                  /\ IF r.ok
                     THEN /\ sent_message' = message
                          /\ delivered' = message
                          /\ pc' = "finally"
                          /\ error' = error
                     ELSE /\ error' = r.exc
                          /\ pc' = "except"
                          /\ UNCHANGED <<sent_message, delivered>>
       ELSE /\ pc' = "finally"
            /\ UNCHANGED <<sent_message, error, calls, delivered>>
    /\ UNCHANGED <<tokens, now, current_timestamp, response, homeworks, message,
                   raised, from_date, fetches, sleeps, derived, prev, fn, last_reply>>

\* A wrong version of HandleError: the failure is logged, nothing is sent.
HandleErrorSilent ==
    /\ pc = "except"
    /\ message' = PyStr(failure_message(error))
    /\ pc' = "finally"
    /\ UNCHANGED <<tokens, now, current_timestamp, sent_message, response,
                   homeworks, error, raised, from_date, fetches, sleeps,
                   derived, calls, prev, delivered, fn, last_reply>>

\* A wrong version of HandleError: once the failure text is delivered the
\* next iteration starts at once, without the sleep.
HandleErrorNoSleep ==
    /\ pc = "except"
    /\ message' = PyStr(failure_message(error))
    /\ \E ok \in BOOLEAN :
         LET r == send_message(failure_message(error), ok)
         IN  /\ calls' = Called(failure_message(error), ok)
             /\ raised' = IF r.ok THEN raised ELSE r.exc
             /\ pc' = IF r.ok THEN "loop" ELSE "finally"
    /\ UNCHANGED <<tokens, now, current_timestamp, sent_message, response,
                   homeworks, error, from_date, fetches, sleeps, derived, prev,
                   delivered, fn, last_reply>>

\* A wrong version of HandleError: a delivered failure text is remembered
\* as the last sent text.
HandleErrorRemembers ==
    /\ pc = "except"
    /\ message' = PyStr(failure_message(error))
    /\ \E ok \in BOOLEAN :
         LET r == send_message(failure_message(error), ok)
         IN  /\ calls' = Called(failure_message(error), ok)
             /\ raised' = IF r.ok THEN raised ELSE r.exc
             /\ sent_message' = IF r.ok THEN PyStr(failure_message(error))
                                ELSE sent_message
    /\ pc' = "finally"
    /\ UNCHANGED <<tokens, now, current_timestamp, response, homeworks, error,
                   from_date, fetches, sleeps, derived, prev, delivered, fn,
                   last_reply>>

\* Lines 162-164: any Exception of the try block is caught, the failure text
\* is built and sent; an exception of this send_message is not caught.
HandleError ==
    /\ pc = "except"
    /\ message' = PyStr(failure_message(error))
    /\ \E ok \in BOOLEAN :
         LET r == send_message(failure_message(error), ok)
         IN  /\ calls' = Called(failure_message(error), ok)
             /\ raised' = IF r.ok THEN raised ELSE r.exc
    /\ pc' = "finally"
    /\ UNCHANGED <<tokens, now, current_timestamp, sent_message, response,
                   homeworks, error, from_date, fetches, sleeps, derived, prev,
                   delivered, fn, last_reply>>

\* Lines 165-166: time.sleep(RETRY_TIME) in the finally block; then the loop
\* goes on, or the exception in flight leaves main().  The locals response,
\* homeworks, message and error are dead here (each is assigned again before
\* it is read) and are reset; the history of the iteration moves to prev,
\* with sent_message and current_timestamp as the next iteration finds them.
Sleep ==
    /\ pc = "finally"
    /\ now' = now + RETRY_TIME
    /\ sleeps' = sleeps + 1
    /\ pc' = IF raised = NoExc THEN "loop" ELSE "exited"
    /\ response' = None
    /\ homeworks' = None
    /\ message' = None
    /\ error' = NoExc
    /\ last_reply' = NoReply
    /\ prev' = [homeworks |-> homeworks, derived |-> derived, calls |-> calls,
                error |-> error, sent |-> sent_message,
                sent_before |-> prev.sent, timestamp |-> current_timestamp]
    /\ derived' = NotDerived
    /\ calls' = <<>>
    /\ UNCHANGED <<tokens, current_timestamp, sent_message, raised, from_date,
                   fetches, delivered, fn>>

Next ==
    \/ Startup
    \/ GetApiAnswer
    \/ UpdateTimestamp
    \/ CheckResponse
    \/ DeriveMessage
    \/ Notify
    \/ HandleError
    \/ Sleep

Spec == Init /\ [][Next]_vars

-----------------------------------------------------------------------------
(* The pure functions on their own: each input is drawn at the start and  *)
(* the function is applied to it once.                                     *)

AllRecords ==
    { Record(n, s, i) : n \in {Absent, "hw1", "hw2"},
                        s \in {Absent, "approved", "reviewing", "rejected",
                               "bogus"},
                        i \in {0, 7} }

AllLists == {<<>>} \cup ListsFrom(AllRecords, TailRecords, MaxHomeworks)

\* arguments of check_response: objects, and values that are no object
AllBodies ==
    { Body(d, h) : d \in CurrentDates \cup {Missing},
                   h \in { PyList(q) : q \in AllLists }
                         \cup {PyDict(<<>>), None, PyStr("homeworks"), Missing} }
    \cup {None, PyList(<<>>), PyStr("homeworks"), PyInt(1)}

\* arguments of get_api_answer: no timestamp, zero and later ones; the
\* wall clock of the call; the replies that fail and one that does not
FnTimestamps == {None, PyInt(0), PyInt(StartTime - 500), PyInt(StartTime)}
FnClocks == {StartTime, StartTime + RETRY_TIME}
FnReplies ==
    { rp \in Replies : ~rp.net \/ rp.status_code # HTTP_OK \/ ~rp.json
                       \/ rp.body = Body(PyInt(0), PyList(<<>>)) }

FnInputs ==
    { [op |-> "check_response", arg |-> b, done |-> FALSE, out |-> NotDerived] :
        b \in AllBodies }
    \cup { [op |-> "derive_message", arg |-> PyList(q), done |-> FALSE,
            out |-> NotDerived] : q \in AllLists }
    \cup { [op |-> "get_api_answer",
            arg |-> [ts |-> ts, clock |-> c, reply |-> rp],
            done |-> FALSE, out |-> NotDerived] :
            ts \in FnTimestamps, c \in FnClocks, rp \in FnReplies }

InitFn ==
    /\ tokens = [PRACTICUM_TOKEN |-> PyStr("token"),
                 TELEGRAM_TOKEN |-> PyStr("token"),
                 TELEGRAM_CHAT_ID |-> PyStr("token")]
    /\ pc = "start"
    /\ now = StartTime
    /\ current_timestamp = None
    /\ sent_message = None
    /\ response = None
    /\ homeworks = None
    /\ message = None
    /\ error = NoExc
    /\ raised = NoExc
    /\ from_date = None
    /\ fetches = 0
    /\ sleeps = 0
    /\ derived = NotDerived
    /\ calls = <<>>
    /\ prev = NoPrev
    /\ delivered = None
    /\ fn \in FnInputs
    /\ last_reply = NoReply

CallCheckResponse ==
    /\ fn.op = "check_response"
    /\ ~fn.done
    /\ fn' = [fn EXCEPT !.done = TRUE, !.out = check_response(fn.arg)]
    /\ UNCHANGED mainVars

CallDeriveMessage ==
    /\ fn.op = "derive_message"
    /\ ~fn.done
    /\ fn' = [fn EXCEPT !.done = TRUE, !.out = derive_message(fn.arg)]
    /\ UNCHANGED mainVars

CallGetApiAnswer ==
    /\ fn.op = "get_api_answer"
    /\ ~fn.done
    /\ fn' = [fn EXCEPT !.done = TRUE,
                        !.out = get_api_answer(fn.arg.ts, fn.arg.clock,
                                               fn.arg.reply)]
    /\ UNCHANGED mainVars

NextFn ==
    \/ CallCheckResponse
    \/ CallDeriveMessage
    \/ CallGetApiAnswer

SpecFn == InitFn /\ [][NextFn]_vars

-----------------------------------------------------------------------------
(* Properties *)

\* the loop has been entered
Polling == pc \notin {"start", "token_error"}

\* the previous and the present iteration derived the same text
SameDerived == derived.ok /\ prev.derived.ok /\ derived.val = prev.derived.val

\* all send_message calls of the present iteration have been made
IterationOver == pc = "finally"

\* C1 as stated: two consecutive iterations that derive the same message call
\* notify exactly once in total.
C1_ExactlyOnceAsStated ==
    (IterationOver /\ SameDerived) => Len(prev.calls) + Len(calls) = 1

\* C1, amended: of two consecutive iterations that derive the same message M,
\* the second calls notify only if the first one's notify(M) failed.  If the
\* first delivered M there is exactly one call in total; if the first sent
\* nothing (M was already the last sent text) there is none; if the first
\* one's delivery of M failed, the second attempts M again.
C1_Idempotence ==
    (IterationOver /\ SameDerived) =>
        LET M == derived.val
        IN  /\ prev.calls = <<[text |-> M, ok |-> TRUE]>> =>
                calls = <<>> /\ sent_message = PyStr(M)
            /\ prev.calls = <<>> => calls = <<>> /\ sent_message = PyStr(M)
            /\ (prev.calls # <<>> /\ ~prev.calls[1].ok) =>
                /\ prev.calls[1].text = M
                /\ calls # <<>>
                /\ calls[1].text = M
            /\ prev.calls # <<>> => prev.calls[1].text = M

C1_Witness ==
    /\ IterationOver
    /\ SameDerived
    /\ prev.calls = <<[text |-> derived.val, ok |-> TRUE]>>
    /\ calls = <<>>

\* C2 as stated: once the loop has been entered, no error inside an iteration
\* ends it; the poller is always still polling.
C2_LoopNeverExits == Polling => pc # "exited"

\* some credential is unset or empty
AnyCredentialMissing ==
    \E k \in DOMAIN tokens : tokens[k] = None \/ tokens[k] = PyStr("")

\* C3: with any of the three credentials empty or absent, main() fails with
\* TokenError before the loop: no fetch, no notify and no sleep ever happens.
C3_NoStartWithoutCredentials ==
    AnyCredentialMissing =>
        /\ pc \in {"start", "token_error"}
        /\ pc = "token_error" => raised.type = "TokenError"
        /\ fetches = 0
        /\ from_date = None
        /\ calls = <<>>
        /\ prev.calls = <<>>
        /\ delivered = None
        /\ sleeps = 0
        /\ now = StartTime

C3_Witness == AnyCredentialMissing /\ pc = "token_error"

\* C4: when a step of the try block has failed, a send_message call with the
\* failure text, which embeds the description of the error, has been made in
\* the same iteration before its sleep.
C4_FailureIsNotified ==
    (IterationOver /\ error # NoExc) =>
        /\ calls # <<>>
        /\ calls[Len(calls)].text = FAILURE_PREFIX \o StrOf(error)
        /\ message = PyStr(FAILURE_PREFIX \o StrOf(error))

C4_Witness ==
    /\ IterationOver
    /\ error.type = "KeyError"
    /\ calls = <<[text |-> FAILURE_PREFIX \o "'" \o NO_STATUS_TEXT \o "'",
                  ok |-> TRUE]>>

\* C5: every iteration ends with one sleep of RETRY_TIME seconds, whether it
\* succeeded or failed: inside an iteration one more fetch than sleeps has
\* happened, between iterations (and after the loop was left) as many.
C5_OneSleepPerIteration ==
    /\ pc \in {"loop", "exited"} => sleeps = fetches
    /\ pc \in {"update", "check", "derive", "notify", "except", "finally"} =>
           sleeps = fetches - 1
    /\ now = StartTime + RETRY_TIME * sleeps

C5_Witness ==
    /\ pc = "exited"
    /\ raised.type = "TelegramError"
    /\ fetches = 2
    /\ sleeps = 2

\* C6 as stated: current_timestamp always holds an integer and never
\* decreases.
C6_TimestampIntegerForwardOnly ==
    [][Polling =>
         /\ current_timestamp'.t = "int"
         /\ current_timestamp.t = "int" =>
                current_timestamp'.v >= current_timestamp.v]_vars

\* check_response has been applied to fn.arg
CheckResponseDone == fn.op = "check_response" /\ fn.done

\* C7: check_response checks in a fixed order: a value that is no dict fails
\* with TypeError; else a dict without current_date or without homeworks
\* fails with KeyError, also when homeworks is present and no list; else a
\* homeworks value that is no list fails with TypeError; else the homeworks
\* list is returned unchanged, the empty list too.
C7_CheckOrder ==
    CheckResponseDone =>
        LET r == fn.arg
            o == fn.out
        IN  IF r.t # "dict"
            THEN ~o.ok /\ o.exc = Exc("TypeError", NOT_DICT_TEXT)
            ELSE IF "current_date" \notin DOMAIN r.v
                    \/ "homeworks" \notin DOMAIN r.v
                 THEN ~o.ok /\ o.exc = Exc("KeyError", NO_KEYS_TEXT)
                 ELSE IF r.v["homeworks"].t # "list"
                      THEN ~o.ok /\ o.exc = Exc("TypeError", NOT_LIST_TEXT)
                      ELSE o.ok /\ o.val = r.v["homeworks"]

\* a response without current_date whose homeworks is no list: KeyError
C7_Witness ==
    /\ CheckResponseDone
    /\ fn.arg = Body(Missing, PyDict(<<>>))
    /\ fn.out.exc.type = "KeyError"

\* derive_message has been applied to fn.arg
DeriveMessageDone == fn.op = "derive_message" /\ fn.done

\* the first record of the list fn.arg
FnFirst == fn.arg.v[1]

\* the first record has a homework_name and a status that is absent or unknown
FnBadStatus ==
    /\ fn.arg.v # <<>>
    /\ "homework_name" \in DOMAIN FnFirst.v
    /\ \/ "status" \notin DOMAIN FnFirst.v
       \/ FnFirst.v["status"].v \notin {"approved", "reviewing", "rejected"}

\* the kind of error of a record without homework_name
MissingFieldKind == parse_status(Record(Absent, "approved", 0)).exc.type

FirstKey(hws) ==
    IF hws.v = <<>> THEN [empty |-> TRUE]
    ELSE [empty |-> FALSE,
          has_name |-> HasKey(hws.v[1], "homework_name"),
          name |-> Get(hws.v[1], "homework_name"),
          has_status |-> HasKey(hws.v[1], "status"),
          status |-> Get(hws.v[1], "status")]

\* this iteration and the previous one both came to derive a text
BothDerived ==
    /\ pc \in {"notify", "except", "finally"}
    /\ derived # NotDerived
    /\ prev.derived # NotDerived

\* C9: the derived text is a function of homework_name and status of the
\* first record only: two iterations whose lists agree on these derive the
\* same text (or fail alike), whatever the other records, the other fields,
\* current_date, current_timestamp and sent_message are; and the empty list
\* always gives the fixed text.
C9_FirstRecordDecides ==
    /\ BothDerived /\ FirstKey(homeworks) = FirstKey(prev.homeworks) =>
           derived = prev.derived
    /\ (derived # NotDerived /\ pc \in {"notify", "except", "finally"}
        /\ homeworks.v = <<>>) => derived = Return(NO_HOMEWORKS_TEXT)

\* two iterations agree on the first record's name and status and differ in
\* the rest of the list, in current_timestamp and in sent_message
C9_Witness ==
    /\ BothDerived
    /\ pc = "notify"
    /\ FirstKey(homeworks) = FirstKey(prev.homeworks)
    /\ derived.ok
    /\ homeworks # prev.homeworks
    /\ Len(homeworks.v) # Len(prev.homeworks.v)
    /\ prev.calls # <<>>
    /\ sent_message = message
    /\ current_timestamp # PyInt(StartTime)

\* the first call of the previous iteration was the derived text and failed
PrevDeliveryFailed ==
    /\ prev.derived.ok
    /\ prev.calls # <<>>
    /\ prev.calls[1] = [text |-> prev.derived.val, ok |-> FALSE]

\* the send_message call of the derived text has failed in this iteration
DeliveryFailed ==
    /\ derived.ok
    /\ calls # <<>>
    /\ calls[1] = [text |-> derived.val, ok |-> FALSE]

\* C10: sent_message is None or the last derived text that send_message
\* delivered; a failed delivery leaves it as it was (so it differs from the
\* text that failed), and an iteration that derives that text again after a
\* failed delivery sends it again.
C10_SentIsLastDelivered ==
    /\ sent_message = delivered
    /\ DeliveryFailed => sent_message # PyStr(derived.val)
    /\ (IterationOver /\ PrevDeliveryFailed /\ SameDerived) =>
           calls # <<>> /\ calls[1].text = derived.val

C10_Witness ==
    /\ IterationOver
    /\ PrevDeliveryFailed
    /\ SameDerived
    /\ calls = <<[text |-> derived.val, ok |-> TRUE]>>
    /\ sent_message = PyStr(derived.val)

\* this iteration fetched, validated and derived a text
DerivedText == derived.ok

\* the derived text differs from sent_message as the iteration found it
DerivedIsNew == PyStr(derived.val) # prev.sent

\* C11 as stated: in an iteration that fetched, validated and derived, a text
\* that differs from sent_message makes exactly one notify call, with that
\* text; an equal one makes none and leaves sent_message as it was.
C11_ExactlyOneCallAsStated ==
    (IterationOver /\ DerivedText) =>
        IF DerivedIsNew
        THEN Len(calls) = 1 /\ calls[1].text = derived.val
        ELSE calls = <<>> /\ sent_message = prev.sent

\* C11, amended: a derived text that differs from sent_message (always so in
\* the first iteration) is sent exactly once, as the first notify call of the
\* iteration and before its sleep; it is the only call when it is delivered,
\* and when its delivery fails one more call follows, with the failure text.
\* A derived text equal to sent_message makes no call and leaves sent_message
\* as it was.
C11_NotifyWhenNew ==
    /\ pc = "notify" => calls = <<>>
    /\ (pc \in {"notify", "except", "finally"} /\ DerivedText /\ fetches = 1) =>
           DerivedIsNew
    /\ (IterationOver /\ DerivedText) =>
           IF DerivedIsNew
           THEN /\ calls # <<>>
                /\ calls[1].text = derived.val
                /\ \A i \in DOMAIN calls : calls[i].text = derived.val => i = 1
                /\ calls[1].ok =>
                       Len(calls) = 1 /\ sent_message = PyStr(derived.val)
                /\ ~calls[1].ok =>
                       /\ Len(calls) = 2
                       /\ calls[2].text = FAILURE_PREFIX \o StrOf(error)
                       /\ sent_message = prev.sent
           ELSE calls = <<>> /\ sent_message = prev.sent

\* the second iteration derives a new text and delivers it at once
C11_Witness ==
    /\ IterationOver
    /\ DerivedText
    /\ fetches = 2
    /\ prev.sent # None
    /\ DerivedIsNew
    /\ calls = <<[text |-> derived.val, ok |-> TRUE]>>

\* requests.get has been called in this iteration
Fetched == last_reply # NoReply

\* the reply is a network failure, a status other than 200 or no JSON
FailedReply(r) == ~r.net \/ r.status_code # HTTP_OK \/ ~r.json

\* the fetch of this iteration gave a JSON object and line 142 has run
TimestampUpdated ==
    /\ Fetched
    /\ ~FailedReply(last_reply)
    /\ last_reply.body.t = "dict"
    /\ pc \in {"check", "derive", "notify", "except", "finally"}

\* C12 as stated: once the fetch has succeeded current_timestamp is the
\* current_date of the response, whatever fails afterwards in the iteration;
\* a failed fetch leaves current_timestamp as it was; and the request of an
\* iteration carries as from_date the integer the iteration before stored.
C12_TimestampBeforeValidation ==
    /\ TimestampUpdated =>
           current_timestamp = Get(last_reply.body, "current_date")
    /\ (Fetched /\ FailedReply(last_reply)) =>
           current_timestamp = prev.timestamp
    /\ (Fetched /\ prev.timestamp.t = "int") => from_date = prev.timestamp

\* the failure text an iteration with error e sends
FailureTextOf(e) == FAILURE_PREFIX \o StrOf(e)

\* C13: failure texts never become sent_message: an iteration that fails at
\* any step leaves sent_message as it found it.  So two failing iterations
\* in a row each attempt their failure text, the same text too; and a text
\* that was the last one delivered before a failing iteration is not sent
\* again when the next iteration derives it.
C13_FailuresNotDeduplicated ==
    /\ (pc \in {"except", "finally"} /\ error # NoExc) =>
           sent_message = prev.sent
    /\ prev.error # NoExc => prev.sent = prev.sent_before
    /\ (IterationOver /\ error # NoExc /\ prev.error # NoExc) =>
           /\ calls # <<>>
           /\ calls[Len(calls)].text = FailureTextOf(error)
           /\ prev.calls # <<>>
           /\ prev.calls[Len(prev.calls)].text = FailureTextOf(prev.error)
    /\ (IterationOver /\ DerivedText /\ prev.error # NoExc
        /\ prev.sent = PyStr(derived.val)) =>
           calls = <<>> /\ sent_message = PyStr(derived.val)

\* M delivered, then a failing iteration, then M derived again and not sent
C13_Witness ==
    /\ IterationOver
    /\ fetches = 3
    /\ DerivedText
    /\ prev.error # NoExc
    /\ prev.sent_before = PyStr(derived.val)
    /\ delivered = PyStr(derived.val)
    /\ calls = <<>>

\* the previous iteration derived a text and delivered it
PrevDelivered ==
    /\ prev.derived.ok
    /\ prev.calls = <<[text |-> prev.derived.val, ok |-> TRUE]>>

\* both iterations parsed a first record: same status, another homework_name
SameStatusOtherName ==
    /\ DerivedText
    /\ prev.derived.ok
    /\ homeworks.v # <<>>
    /\ prev.homeworks.v # <<>>
    /\ Get(homeworks.v[1], "status") = Get(prev.homeworks.v[1], "status")
    /\ Get(homeworks.v[1], "homework_name")
           # Get(prev.homeworks.v[1], "homework_name")

\* C14: a derived text is held back exactly when it equals, as a string, the
\* single text sent last.  A text with another homework name and the same
\* status is sent as a new one; and after M and then M' were delivered, M is
\* sent again when it is derived again (M, M', M: three notify calls).
C14_ExactTextAgainstLastOnly ==
    /\ (IterationOver /\ DerivedText) =>
           (calls = <<>> <=> PyStr(derived.val) = prev.sent)
    /\ (IterationOver /\ PrevDelivered /\ SameStatusOtherName) =>
           calls # <<>> /\ calls[1].text = derived.val
    /\ (IterationOver /\ DerivedText /\ PrevDelivered
        /\ prev.derived.val # derived.val
        /\ prev.sent_before = PyStr(derived.val)) =>
           calls # <<>> /\ calls[1].text = derived.val

\* M, M', M with every delivery succeeding: the third call sends M again
C14_Witness ==
    /\ IterationOver
    /\ fetches = 3
    /\ DerivedText
    /\ PrevDelivered
    /\ prev.derived.val # derived.val
    /\ prev.sent_before = PyStr(derived.val)
    /\ calls = <<[text |-> derived.val, ok |-> TRUE]>>

\* get_api_answer has been applied to fn.arg
GetApiAnswerDone == fn.op = "get_api_answer" /\ fn.done

\* C15 as stated: get_api_answer sends as from_date exactly the integer it
\* was given, 0 included, and the wall clock only when it was given none.
C15_FromDateIsTheTimestampGiven ==
    GetApiAnswerDone =>
        /\ fn.arg.ts.t = "int" => fn.out.from_date = fn.arg.ts
        /\ fn.arg.ts = None => fn.out.from_date = PyInt(fn.arg.clock)

\* the error get_api_answer raises for a reply that fails
FetchErrorOf(r) ==
    IF ~r.net THEN Exc("RequestException", "Connection failed")
    ELSE IF r.status_code # HTTP_OK
         THEN Exc("RequestException",
                  "Zapros ne udalsya: kod oshibki " \o ToString(r.status_code))
         ELSE Exc("JSONDecodeError", "Expecting value")

\* C16: an iteration makes exactly one request.  A network failure, a status
\* other than 200 and a body that is no JSON each end the try block with the
\* error of the request (RequestException or JSONDecodeError): nothing is
\* assigned, the failure is notified, and the next request is made by the
\* next iteration, after the sleep.
C16_NoInlineRetry ==
    /\ Fetched => fetches = sleeps + 1
    /\ ~Fetched => fetches = sleeps
    /\ pc \in {"update", "check", "derive", "notify", "except", "finally"} =>
           Fetched
    /\ (Fetched /\ FailedReply(last_reply)) =>
           /\ pc \in {"except", "finally"}
           /\ error = FetchErrorOf(last_reply)
           /\ response = None
           /\ derived = NotDerived
           /\ current_timestamp = prev.timestamp
           /\ pc = "finally" =>
                  /\ Len(calls) = 1
                  /\ calls[1].text = FAILURE_PREFIX \o FetchErrorOf(last_reply).arg

\* the second iteration's request is answered with status 500
C16_Witness ==
    /\ IterationOver
    /\ Fetched
    /\ last_reply.net
    /\ last_reply.status_code = 500
    /\ error.type = "RequestException"
    /\ fetches = 2
    /\ sleeps = 1

====
